---- MODULE Spec2Model ----
(***************************************************************************)
(* State-machine model of ControlTabWidget, the hand-eye calibration       *)
(* control panel of handeye_control_widget.cpp: the pose-sample store, the *)
(* rotation filter, the solver call, the joint-state list with its         *)
(* progress bar, and the plan/execute sequencer with its two background    *)
(* computations.                                                           *)
(*                                                                         *)
(* Abstractions.  A rigid transform is a rotation about one fixed axis by  *)
(* a whole number of degrees (field rot) plus a flag telling whether the   *)
(* quaternion it came from had unit norm.  The collaborators that are not  *)
(* part of the file (TF buffer, solver plugin, planner, executor, file     *)
(* dialogs and files) are inputs chosen with \E from small sets; a handler  *)
(* h that takes such inputs is the action h_in(inputs), and h itself is    *)
(* \E inputs : h_in(inputs).  Joint positions do not steer the code and    *)
(* are all 0 in snapshots taken from the robot.                Every       *)
(* GUI handler is one atomic action of the GUI thread; computePlan and     *)
(* computeExecution run on pool threads and are split at their blocking    *)
(* calls.                                                                  *)
(***************************************************************************)
EXTENDS Integers, Sequences, FiniteSets, TLC

\* ------------------------------------------------------------------ bounds
\* Cap on the number of stored pose samples (both sequences).
MaxSamples == 5
\* Cap on the progress value above which Skip and Execute are not requested.
MaxProgress == 2

\* ------------------------------------------------------- program constants
\* MIN_ROTATION = M_PI / 36, in degrees.
MIN_ROTATION == 5
\* The "size() > 4" threshold guarding the automatic solve.
SolveThreshold == 4

\* -------------------------------------------------------------- transforms
Transform(r, u) == [rot |-> r, unit |-> u]

\* Eigen::AngleAxisd((a.inverse() * b).rotation()).angle(), in degrees:
\* the magnitude of the relative rotation, in [0, 180].
RelAngle(a, b) ==
    LET d == (a.rot - b.rot) % 360
    IN  IF d > 180 THEN 360 - d ELSE d

\* tf2 Quaternion::normalize() applied to a transform's rotation.
Normalize(t) == [t EXCEPT !.unit = TRUE]

\* ------------------------------------------------------------- environment
\* What the two lookupTransform calls can return: the base->eef transform
\* and the camera->object transform of a robot/scene configuration.
RobotPoses ==
    { [eef |-> Transform(0, TRUE),  obj |-> Transform(0, TRUE)],
      [eef |-> Transform(5, TRUE),  obj |-> Transform(5, TRUE)],
      [eef |-> Transform(3, TRUE),  obj |-> Transform(20, TRUE)],
      [eef |-> Transform(20, TRUE), obj |-> Transform(8, FALSE)] }

\* A failed lookupTransform (tf2::TransformException).
TFException == [exception |-> TRUE]

Lookups == RobotPoses \cup {TFException}

FrameKeys == {"sensor", "object", "base", "eef"}
NoFrames == [k \in FrameKeys |-> ""]
AllFrames == [k \in FrameKeys |-> k]
FrameMaps == {AllFrames, [AllFrames EXCEPT !["object"] = ""]}

\* Planning groups of the robot model and their active joints.
Groups == {"arm", "hand"}
ActiveJoints(g) == IF g = "arm" THEN <<"j1", "j2">> ELSE <<"j3">>

\* Sample files offered by the "Load samples" dialog.  A record field is a
\* transform, or Bad when the key is missing or is not a list of doubles.
Bad == [bad |-> TRUE]
SampleRec(e, o) == [e |-> e, o |-> o]
GoodFile4 ==
    << SampleRec(Transform(40, TRUE), Transform(40, TRUE)),
       SampleRec(Transform(60, TRUE), Transform(60, TRUE)),
       SampleRec(Transform(80, TRUE), Transform(80, TRUE)),
       SampleRec(Transform(81, TRUE), Transform(100, TRUE)) >>
PartialFile ==
    << SampleRec(Transform(40, TRUE), Transform(40, TRUE)),
       SampleRec(Transform(60, TRUE), Bad) >>
SampleFiles == {GoodFile4, PartialFile, << >>}

\* Joint-state files offered by the "Load joint states" dialog.
\* has_values is FALSE when the joint_values key is missing or no sequence;
\* bad_at is the index of the first snapshot with an entry that does not
\* convert to double (as<double>() throws), or 0 when there is none.
JointDoc(n, h, v, b) == [names |-> n, has_values |-> h, values |-> v, bad_at |-> b]
JointFiles ==
    { JointDoc(<<"j1", "j2">>, TRUE, << <<1, 1>>, <<3>>, <<2, 2>> >>, 0),
      JointDoc(<<"j3">>, TRUE, << <<1, 1>> >>, 0),
      JointDoc(<<"j3">>, FALSE, << >>, 0),
      JointDoc(<<"j1", "j2">>, TRUE, << <<1, 1>>, <<2, 2>> >>, 2) }

\* Joint state files for the plan-then-execute cycles: three targets, and
\* two targets next to a snapshot of another length.
CycleFiles ==
    { JointDoc(<<"j1", "j2">>, TRUE, << <<1, 1>>, <<2, 2>>, <<3, 3>> >>, 0),
      JointDoc(<<"j1", "j2">>, TRUE, << <<1, 1>>, <<2, 2>>, <<3>> >>, 0) }

\* Eigen::Isometry3d::Identity(), the pose held before any solve.
IdentityPose == [identity |-> TRUE]

\* current_plan_ before any plan was created.
NullPlan == [null |-> TRUE]

\* Names are sequences of pieces, a piece being the delimiter "/" or a run of
\* other characters.  A solver plugin has a name, loads or throws in
\* createUniqueInstance, and exposes solver names.
Plugin(n, l, sv) == [name |-> n, loads |-> l, solvers |-> sv]
PluginA == Plugin(<<"a">>, TRUE, << <<"x">>, <<"y">> >>)
PluginB == Plugin(<<"b">>, TRUE, << <<"x">> >>)
PluginBroken == Plugin(<<"c">>, FALSE, << >>)

\* What getDeclaredClasses returns: no plugin, or one.
PluginLists == { << >>, <<PluginA>> }

\* Declared plugins with several providers, one of which may fail to load.
ManyPluginLists ==
    { <<PluginA>>, <<PluginA, PluginB>>, <<PluginB, PluginA>>,
      <<PluginA, PluginBroken>>, <<PluginBroken, PluginB>> }

\* solver_ before any instance was created, and after a failed creation.
NullSolver == [null |-> TRUE]

\* ControlTabWidget::createSolverInstance: the new value of solver_.
createSolverInstance(plugin) ==
    IF plugin.loads THEN [plugin |-> plugin.name] ELSE NullSolver

\* ControlTabWidget::fillSolverTypes from solver instance sol and combo box
\* items: every plugin is instantiated in turn into solver_, and the names
\* "plugin/solver" of those that load are added to the combo box.
RECURSIVE fillSolverTypes(_, _, _)
fillSolverTypes(plugins, sol, items) ==
    IF plugins = << >>
    THEN [solver |-> sol, items |-> items]
    ELSE LET plugin == Head(plugins)
             inst == createSolverInstance(plugin)
         IN  IF plugin.name = << >>
             THEN fillSolverTypes(Tail(plugins), sol, items)
             ELSE IF inst = NullSolver
             THEN fillSolverTypes(Tail(plugins), inst, items)
             ELSE fillSolverTypes(Tail(plugins), inst,
                      items \o [i \in 1..Len(plugin.solvers) |->
                                   plugin.name \o <<"/">> \o plugin.solvers[i]])

\* ControlTabWidget::parseSolverName: the last token of solver_name split at
\* the delimiter (tokens.back(); the name is not empty where it is called).
RECURSIVE parseSolverName(_, _)
parseSolverName(solver_name, delimiter) ==
    IF \A i \in 1..Len(solver_name) : solver_name[i] # delimiter
    THEN solver_name
    ELSE LET first == CHOOSE i \in 1..Len(solver_name) :
                          /\ solver_name[i] = delimiter
                          /\ \A j \in 1..(i - 1) : solver_name[j] # delimiter
             rest == SubSeq(solver_name, first + 1, Len(solver_name))
         IN  IF rest = << >> THEN SubSeq(solver_name, 1, first - 1)
             ELSE parseSolverName(rest, delimiter)

\* -------------------------------------------------------------------- state
VARIABLES
    effector_wrt_world_,   \* std::vector<Eigen::Isometry3d>
    object_wrt_sensor_,    \* std::vector<Eigen::Isometry3d>
    joint_states_,         \* std::vector<std::vector<double>>
    joint_names_,          \* std::vector<std::string>
    bar_value,             \* auto_progress_->bar_->value()
    bar_maximum,           \* auto_progress_->bar_->maximum()
    camera_robot_pose_,    \* Eigen::Isometry3d, the held calibration result
    published,             \* transforms held by tf_tools_
    sensor_mount_type_,    \* mhc::SensorMountType
    from_frame_tag_,       \* "base" or "eef"
    frame_names_,          \* std::map<std::string, std::string>
    solver_,               \* the solver instance (its plugin), or NullSolver
    calibration_solver_,   \* the solver combo box: its items and current text
    group_name_,           \* current text of the planning-group combo box
    move_group_,           \* name of the MoveGroupInterface's group, or "null"
    planning_res_,         \* ControlTabWidget::PLANNING_RESULT
    current_plan_,         \* the stored plan, or NullPlan
    auto_plan_btn_,        \* enabled flag of the Plan button
    auto_execute_btn_,     \* enabled flag of the Execute button
    plan_pc,               \* position of the computePlan computation
    exec_pc,               \* position of the computeExecution computation
    gui_pc,                \* "idle", or "waitPlan" inside autoExecuteBtnClicked
    plan_status,           \* what the most recent plan request came to (observation)
    fault,                 \* "none", or how the process left defined behaviour
    samples_file           \* content of the file "Save samples" wrote, or NoFile

storeVars == <<effector_wrt_world_, object_wrt_sensor_, joint_states_, joint_names_,
               bar_value, bar_maximum>>
solveVars == <<camera_robot_pose_, published>>
configVars == <<sensor_mount_type_, from_frame_tag_, frame_names_, solver_,
                calibration_solver_, group_name_, move_group_>>
seqVars == <<planning_res_, current_plan_, auto_plan_btn_, auto_execute_btn_,
             plan_pc, exec_pc, gui_pc, plan_status>>
vars == <<storeVars, solveVars, configVars, seqVars, fault, samples_file>>

\* ------------------------------------------------------- ProgressBarWidget
\* QProgressBar::setMaximum behind ProgressBarWidget::setMax: the range
\* becomes [0, m]; a value above the new maximum is reset to minimum - 1.
BarAfterSetMax(value, maximum, m) ==
    IF m = maximum THEN [value |-> value, maximum |-> maximum]
    ELSE [value |-> IF value > m THEN -1 ELSE value, maximum |-> m]

\* A wrong variant of BarAfterSetValue that takes every value.
BarAfterSetValue_unchecked(value, maximum, v) == [value |-> v, maximum |-> maximum]

\* QProgressBar::setValue behind ProgressBarWidget::setValue: a value outside
\* [0, maximum] is ignored unless minimum = maximum = 0.
BarAfterSetValue(value, maximum, v) ==
    IF v = value \/ ((v > maximum \/ v < 0) /\ maximum # 0)
    THEN [value |-> value, maximum |-> maximum]
    ELSE [value |-> v, maximum |-> maximum]

\* ------------------------------------------------------------ pure helpers
Max2(a, b) == IF a > b THEN a ELSE b

Running == fault = "none" /\ gui_pc = "idle"

\* What the solver plugin returns for a sample set (getCameraRobotPose after
\* a successful solve): a value determined by the samples and the mount type.
SolverPose(eff, obj, mount) == [ne |-> Len(eff), no |-> Len(obj), mount |-> mount]

\* A wrong variant of TooSimilar that also turns away a candidate at exactly
\* MIN_ROTATION from a prior sample.
TooSimilar_inclusive(cand, priors) ==
    \E i \in 1..Len(priors) : RelAngle(cand, priors[i]) <= MIN_ROTATION

\* The loop bodies of takeTransformSamples: some prior sample is closer than
\* MIN_ROTATION to the candidate.
TooSimilar(cand, priors) ==
    \E i \in 1..Len(priors) : RelAngle(cand, priors[i]) < MIN_ROTATION

\* ControlTabWidget::takeTransformSamples on lookup result lk: the return
\* value, the message shown and the two sequences afterwards.
takeTransformSamples(lk) ==
    LET same(m) == [ok |-> FALSE, msg |-> m,
                    eff |-> effector_wrt_world_, obj |-> object_wrt_sensor_]
    IN  IF lk = TFException THEN same("TF exception")
        ELSE IF TooSimilar(lk.eef, effector_wrt_world_)
             THEN same("End-effector orientation is too similar")
        ELSE IF TooSimilar(lk.obj, object_wrt_sensor_)
             THEN same("Camera orientation is too similar")
        ELSE [ok |-> TRUE, msg |-> "",
              eff |-> Append(effector_wrt_world_, lk.eef),
              obj |-> Append(object_wrt_sensor_, lk.obj)]

\* Lookup results the environment offers: once the store is at its cap only
\* those that add no sample (MaxSamples also caps the joint-state list).
LookupsNow ==
    { lk \in Lookups :
        (\/ Max2(Len(effector_wrt_world_), Len(object_wrt_sensor_)) >= MaxSamples
         \/ Len(joint_states_) >= MaxSamples)
            => ~takeTransformSamples(lk).ok }

\* A wrong variant of SolverFailed that clears the held pose and what was
\* published.
SolverFailed_clearing ==
    [ret |-> FALSE, pose |-> IdentityPose, pub |-> {}, msg |-> "Solver Failed"]

\* The else branch of "if (res)" in solveCameraRobotPose: the solver reported
\* failure; nothing is assigned or published.
SolverFailed ==
    [ret |-> FALSE, pose |-> camera_robot_pose_, pub |-> published,
     msg |-> "Solver Failed"]

\* The condition under which solveCameraRobotPose calls solver_->solve.
SolverAvailable == solver_ # NullSolver /\ calibration_solver_.text # << >>

\* A wrong variant of solveCameraRobotPose that publishes without clearing
\* the transforms published before.
solveCameraRobotPose_keepsOld(eff, obj, res) ==
    IF SolverAvailable
    THEN IF res
             THEN LET pose == SolverPose(eff, obj, sensor_mount_type_)
                      from_frame == frame_names_[from_frame_tag_]
                      to_frame == frame_names_["sensor"]
                  IN  IF from_frame # "" /\ to_frame # ""
                      THEN [ret |-> TRUE, pose |-> pose,
                            pub |-> published \cup
                                    {[pose |-> pose, from |-> from_frame, to |-> to_frame]},
                            msg |-> ""]
                      ELSE [ret |-> FALSE, pose |-> pose, pub |-> published,
                            msg |-> "Solver Failed: frame undefined"]
             ELSE SolverFailed
        ELSE [ret |-> FALSE, pose |-> camera_robot_pose_, pub |-> published,
              msg |-> "No Solver Available"]

\* ControlTabWidget::solveCameraRobotPose on the given sequences; res is the
\* verdict of solver_->solve.
solveCameraRobotPose(eff, obj, res) ==
    IF SolverAvailable
    THEN IF res
             THEN LET pose == SolverPose(eff, obj, sensor_mount_type_)
                      from_frame == frame_names_[from_frame_tag_]
                      to_frame == frame_names_["sensor"]
                  IN  IF from_frame # "" /\ to_frame # ""
                      THEN [ret |-> TRUE, pose |-> pose,
                            pub |-> {[pose |-> pose, from |-> from_frame, to |-> to_frame]},
                            msg |-> ""]
                      ELSE [ret |-> FALSE, pose |-> pose, pub |-> published,
                            msg |-> "Solver Failed: frame undefined"]
             ELSE SolverFailed
        ELSE [ret |-> FALSE, pose |-> camera_robot_pose_, pub |-> published,
              msg |-> "No Solver Available"]

\* The result record of a solve that was not attempted.
SkippedSolve ==
    [ret |-> TRUE, pose |-> camera_robot_pose_, pub |-> published, msg |-> ""]

\* ControlTabWidget::frameNamesEmpty
frameNamesEmpty == \E k \in FrameKeys : frame_names_[k] = ""

\* ControlTabWidget::checkJointStates
checkJointStates ==
    /\ joint_names_ # << >>
    /\ joint_states_ # << >>
    /\ \A i \in 1..Len(joint_states_) : Len(joint_states_[i]) = Len(joint_names_)

\* The "size() == size() && size() > 4" guard before an automatic solve.
SolveGuard(eff, obj) == Len(eff) = Len(obj) /\ Len(eff) > SolveThreshold

\* takeSampleBtnClicked goes on to solveCameraRobotPose: the sample was
\* stored and the size guard holds (t is the result of takeTransformSamples).
TakeSolves(t) == t.ok /\ SolveGuard(t.eff, t.obj)

\* A wrong variant of StoresJointState that goes on after a rejected sample.
StoresJointState_afterReject(t, s, ps) == s.ret /\ ps

\* takeSampleBtnClicked reaches the push_back of the joint values: neither
\* early return was taken and the planning scene could be locked (ps).
StoresJointState(t, s, ps) == t.ok /\ s.ret /\ ps

\* The snapshots takeSampleBtnClicked keeps before it appends the new one:
\* none when the group's active joint names differ from joint_names_.
KeptSnapshots(names) == IF joint_names_ # names THEN << >> ELSE joint_states_

\* The guard of deleteLatestSampleBtnClicked that reports "Empty Pose samples".
EmptyReport == joint_states_ = << >>

\* ------------------------------------------------------------ sample store
\* ControlTabWidget::takeSampleBtnClicked.  lk is what the two TF lookups
\* return, res the solver's verdict, ps whether the planning scene could be
\* locked (LockedPlanningSceneRO is valid).
takeSampleBtnClicked_in(lk, res, ps) ==
    /\ UNCHANGED samples_file
    /\ Running
    /\ IF frameNamesEmpty
       THEN UNCHANGED <<storeVars, solveVars, configVars, seqVars, fault>>
       ELSE LET t == takeTransformSamples(lk)
                s == IF TakeSolves(t)
                     THEN solveCameraRobotPose(t.eff, t.obj, res)
                     ELSE SkippedSolve
                names == ActiveJoints(group_name_)
                js == Append(KeptSnapshots(names), [i \in 1..Len(names) |-> 0])
                bar == BarAfterSetMax(bar_value, bar_maximum, Len(js))
            IN  /\ effector_wrt_world_' = t.eff
                /\ object_wrt_sensor_' = t.obj
                /\ camera_robot_pose_' = s.pose
                /\ published' = s.pub
                /\ UNCHANGED <<configVars, seqVars>>
                /\ IF ~StoresJointState(t, s, ps)
                   THEN UNCHANGED <<joint_states_, joint_names_, bar_value,
                                    bar_maximum, fault>>
                   ELSE IF group_name_ \notin Groups
                   THEN \* getJointModelGroup returns nullptr, then jmg-> is used
                        /\ fault' = "null_group"
                        /\ UNCHANGED <<joint_states_, joint_names_, bar_value,
                                       bar_maximum>>
                   ELSE /\ joint_names_' = names
                        /\ joint_states_' = js
                        /\ bar_value' = bar.value
                        /\ bar_maximum' = bar.maximum
                        /\ UNCHANGED fault

takeSampleBtnClicked ==
    \E lk \in LookupsNow, res \in BOOLEAN, ps \in BOOLEAN :
        takeSampleBtnClicked_in(lk, res, ps)

\* What deleteLatestSampleBtnClicked makes of a store: nothing when there is
\* no joint snapshot, pop_back() on each of the three vectors otherwise
\* (undefined on an empty std::vector).
deleteLatest(eff, obj, js) ==
    IF js = << >>
    THEN [popped |-> FALSE, fault |-> "none", eff |-> eff, obj |-> obj, js |-> js]
    ELSE IF eff = << >> \/ obj = << >>
    THEN [popped |-> FALSE, fault |-> "pop_back_empty", eff |-> eff, obj |-> obj,
          js |-> js]
    ELSE [popped |-> TRUE, fault |-> "none",
          eff |-> SubSeq(eff, 1, Len(eff) - 1),
          obj |-> SubSeq(obj, 1, Len(obj) - 1),
          js |-> SubSeq(js, 1, Len(js) - 1)]

\* ControlTabWidget::deleteLatestSampleBtnClicked
deleteLatestSampleBtnClicked ==
    /\ UNCHANGED samples_file
    /\ Running
    /\ UNCHANGED <<solveVars, configVars, seqVars, joint_names_>>
    /\ LET d == deleteLatest(effector_wrt_world_, object_wrt_sensor_, joint_states_)
           bar == IF d.popped
                  THEN BarAfterSetMax(bar_value, bar_maximum, Len(d.js))
                  ELSE [value |-> bar_value, maximum |-> bar_maximum]
       IN  /\ effector_wrt_world_' = d.eff
           /\ object_wrt_sensor_' = d.obj
           /\ joint_states_' = d.js
           /\ bar_value' = bar.value
           /\ bar_maximum' = bar.maximum
           /\ fault' = IF d.fault = "none" THEN fault ELSE d.fault

\* A wrong variant of clearSamplesBtnClicked that leaves out setValue(0).
clearSamplesBtnClicked_noSetValue ==
    /\ UNCHANGED samples_file
    /\ Running
    /\ LET b1 == BarAfterSetMax(bar_value, bar_maximum, 0)
       IN  /\ effector_wrt_world_' = << >>
           /\ object_wrt_sensor_' = << >>
           /\ joint_states_' = << >>
           /\ bar_value' = b1.value
           /\ bar_maximum' = b1.maximum
    /\ UNCHANGED <<joint_names_, solveVars, configVars, seqVars, fault>>

\* ControlTabWidget::clearSamplesBtnClicked
clearSamplesBtnClicked ==
    /\ UNCHANGED samples_file
    /\ Running
    /\ LET b1 == BarAfterSetMax(bar_value, bar_maximum, 0)
           b2 == BarAfterSetValue(b1.value, b1.maximum, 0)
       IN  /\ effector_wrt_world_' = << >>
           /\ object_wrt_sensor_' = << >>
           /\ joint_states_' = << >>
           /\ bar_value' = b2.value
           /\ bar_maximum' = b2.maximum
    /\ UNCHANGED <<joint_names_, solveVars, configVars, seqVars, fault>>

\* Index of the first record of a sample file with a field that does not
\* convert (as<std::vector<double>>() throws), or 0 when every record is good.
FirstBad(file) ==
    IF \E i \in 1..Len(file) : file[i].e = Bad \/ file[i].o = Bad
    THEN CHOOSE i \in 1..Len(file) :
             /\ file[i].e = Bad \/ file[i].o = Bad
             /\ \A j \in 1..(i - 1) : file[j].e # Bad /\ file[j].o # Bad
    ELSE 0

\* The loop of loadSamplesBtnClicked over the records of a file: the two
\* sequences when the loop ends or is left by the exception.
LoadedSamples(file) ==
    LET k == FirstBad(file)
        n == IF k = 0 THEN Len(file) ELSE k - 1
        whole_e == [i \in 1..n |-> file[i].e]
        whole_o == [i \in 1..n |-> file[i].o]
    IN  [ok |-> k = 0,
         eff |-> IF k # 0 /\ file[k].e # Bad THEN Append(whole_e, file[k].e) ELSE whole_e,
         obj |-> whole_o]

\* What the file dialog and the file system give loadSamplesBtnClicked: the
\* dialog is cancelled, the named file cannot be read, or it is one of
\* SampleFiles.
Cancelled == [cancelled |-> TRUE]
Unreadable == [unreadable |-> TRUE]
LoadInputs == {Cancelled, Unreadable} \cup {[file |-> f] : f \in SampleFiles}

\* The entry (y, x) of the 4x4 matrix of a transform: a rotation block
\* [c, -s; s, c] whose c stands for the rotation and whose s tells a unit
\* rotation (1) from a scaled one (2), then the rows of the identity.
Coeff(t, y, x) ==
    LET s == IF t.unit THEN 1 ELSE 2
    IN  IF y = 0 /\ x = 0 THEN t.rot
        ELSE IF y = 0 /\ x = 1 THEN 0 - s
        ELSE IF y = 1 /\ x = 0 THEN s
        ELSE IF y = 1 /\ x = 1 THEN t.rot
        ELSE IF y = x THEN 1 ELSE 0

\* A wrong variant of Emitted that writes the matrix column by column.
Emitted_columnMajor(t) == [n \in 1..16 |-> Coeff(t, (n - 1) % 4, (n - 1) \div 4)]

\* The 16 values saveSamplesBtnClicked emits for a transform: y is the outer
\* loop and x the inner one (lines 927-933, 937-943).
Emitted(t) == [n \in 1..16 |-> Coeff(t, (n - 1) \div 4, (n - 1) % 4)]

\* Eigen::Map<const Matrix4d_rm> over 16 doubles, as a transform: entry
\* (y, x) is data[4 * y + x].
MapRowMajor(data) ==
    LET m(y, x) == data[4 * y + x + 1]
    IN  Transform(m(0, 0), m(1, 0) = 1)

\* The file saveSamplesBtnClicked writes for two sequences of equal length.
SavedFile(eff, obj) ==
    [content |-> [i \in 1..Len(eff) |-> [effector_wrt_world |-> Emitted(eff[i]),
                                         object_wrt_sensor |-> Emitted(obj[i])]]]

\* No file was written yet.
NoFile == [nofile |-> TRUE]

\* A written file as loadSamplesBtnClicked reads its records.
ParsedFile(file) ==
    [i \in 1..Len(file.content) |->
        SampleRec(MapRowMajor(file.content[i].effector_wrt_world),
                  MapRowMajor(file.content[i].object_wrt_sensor))]

\* The file written by "Save samples" is offered by the load dialog too.
SavedInputs == IF samples_file = NoFile THEN {} ELSE {[file |-> ParsedFile(samples_file)]}

\* ControlTabWidget::loadSamplesBtnClicked
loadSamplesBtnClicked_in(input) ==
    /\ UNCHANGED samples_file
    /\ Running
    /\ UNCHANGED <<joint_states_, joint_names_, solveVars, configVars, seqVars>>
    /\ IF input = Cancelled
       THEN UNCHANGED <<effector_wrt_world_, object_wrt_sensor_, bar_value,
                        bar_maximum, fault>>
       ELSE IF input = Unreadable
       THEN \* YAML::LoadFile throws outside the try block
            /\ effector_wrt_world_' = << >>
            /\ object_wrt_sensor_' = << >>
            /\ fault' = "uncaught_exception"
            /\ UNCHANGED <<bar_value, bar_maximum>>
       ELSE LET l == LoadedSamples(input.file)
                b1 == BarAfterSetMax(bar_value, bar_maximum, Len(input.file))
                b2 == BarAfterSetValue(b1.value, b1.maximum, Len(input.file))
            IN  /\ effector_wrt_world_' = l.eff
                /\ object_wrt_sensor_' = l.obj
                /\ bar_value' = IF l.ok THEN b2.value ELSE bar_value
                /\ bar_maximum' = IF l.ok THEN b2.maximum ELSE bar_maximum
                /\ UNCHANGED fault

loadSamplesBtnClicked ==
    \E input \in LoadInputs \cup SavedInputs : loadSamplesBtnClicked_in(input)

\* What the save dialog and the file system give saveSamplesBtnClicked: the
\* dialog is cancelled (or the file cannot be opened), or the file is written.
Written == [written |-> TRUE]
SaveInputs == {Cancelled, Written}

\* ControlTabWidget::saveSamplesBtnClicked: refuses when the two sequences
\* differ in length, else writes the file; the widget's state is not changed.
saveSamplesBtnClicked_in(input) ==
    /\ Running
    /\ samples_file' =
           IF Len(effector_wrt_world_) # Len(object_wrt_sensor_) \/ input = Cancelled
           THEN samples_file
           ELSE SavedFile(effector_wrt_world_, object_wrt_sensor_)
    /\ UNCHANGED <<storeVars, solveVars, configVars, seqVars, fault>>

saveSamplesBtnClicked == \E input \in SaveInputs : saveSamplesBtnClicked_in(input)

\* ControlTabWidget::solveBtnClicked; res is the solver's verdict.
solveBtnClicked_in(res) ==
    /\ UNCHANGED samples_file
    /\ Running
    /\ LET s == solveCameraRobotPose(effector_wrt_world_, object_wrt_sensor_, res)
       IN  /\ camera_robot_pose_' = s.pose
           /\ published' = s.pub
    /\ UNCHANGED <<storeVars, configVars, seqVars, fault>>

solveBtnClicked == \E res \in BOOLEAN : solveBtnClicked_in(res)

\* ------------------------------------------------------------ configuration
\* A wrong variant of UpdateSensorMountType that drops the held result when
\* the mount type is assigned.
UpdateSensorMountType_resetsPose ==
    /\ UNCHANGED samples_file
    /\ Running
    /\ \E index \in -1..2 :
         IF 0 <= index /\ index <= 1
         THEN /\ sensor_mount_type_' = IF index = 0 THEN "EYE_TO_HAND" ELSE "EYE_IN_HAND"
              /\ from_frame_tag_' = IF index = 0 THEN "base" ELSE "eef"
              /\ camera_robot_pose_' = IdentityPose
         ELSE UNCHANGED <<sensor_mount_type_, from_frame_tag_, camera_robot_pose_>>
    /\ UNCHANGED <<storeVars, published, frame_names_, solver_, calibration_solver_,
                   group_name_, move_group_, seqVars, fault>>

\* A wrong variant of UpdateSensorMountType_in that casts the index without
\* the range test: a value that is no enumerator takes the default branch of
\* the switch.
UpdateSensorMountType_in_unchecked(index) ==
    /\ UNCHANGED samples_file
    /\ Running
    /\ sensor_mount_type_' = IF index = 0 THEN "EYE_TO_HAND"
                             ELSE IF index = 1 THEN "EYE_IN_HAND" ELSE "OTHER"
    /\ from_frame_tag_' = IF index = 0 THEN "base"
                          ELSE IF index = 1 THEN "eef" ELSE from_frame_tag_
    /\ UNCHANGED <<storeVars, solveVars, frame_names_, solver_, calibration_solver_,
                   group_name_, move_group_, seqVars, fault>>

\* ControlTabWidget::UpdateSensorMountType(index)
UpdateSensorMountType_in(index) ==
    /\ UNCHANGED samples_file
    /\ Running
    /\ IF 0 <= index /\ index <= 1
       THEN /\ sensor_mount_type_' = IF index = 0 THEN "EYE_TO_HAND" ELSE "EYE_IN_HAND"
            /\ from_frame_tag_' = IF index = 0 THEN "base" ELSE "eef"
       ELSE UNCHANGED <<sensor_mount_type_, from_frame_tag_>>
    /\ UNCHANGED <<storeVars, solveVars, frame_names_, solver_, calibration_solver_,
                   group_name_, move_group_, seqVars, fault>>

\* The indices the mount type combo box of the context tab can send.
MountIndices == -1..2

UpdateSensorMountType == \E index \in MountIndices : UpdateSensorMountType_in(index)

\* ControlTabWidget::updateFrameNames
updateFrameNames ==
    /\ UNCHANGED samples_file
    /\ Running
    /\ \E names \in FrameMaps : frame_names_' = names
    /\ UNCHANGED <<storeVars, solveVars, sensor_mount_type_, from_frame_tag_, solver_,
                   calibration_solver_, group_name_, move_group_, seqVars, fault>>

\* An item of the solver combo box is activated, by the user or by
\* loadWidget (lines 270-282); no slot is connected to the signal.
calibration_solver_activated ==
    /\ UNCHANGED samples_file
    /\ Running
    /\ \E i \in 1..Len(calibration_solver_.items) :
          calibration_solver_' =
              [calibration_solver_ EXCEPT !.text = calibration_solver_.items[i]]
    /\ UNCHANGED <<storeVars, solveVars, sensor_mount_type_, from_frame_tag_,
                   frame_names_, solver_, group_name_, move_group_, seqVars, fault>>

\* ControlTabWidget::planningGroupNameChanged with setGroupName: the user
\* activates an entry of the (non-empty) group combo box; ctor_ok tells
\* whether constructing the MoveGroupInterface succeeds or throws.
planningGroupNameChanged ==
    /\ UNCHANGED samples_file
    /\ Running
    /\ group_name_ # ""
    /\ \E text \in Groups, ctor_ok \in BOOLEAN :
         /\ group_name_' = text
         /\ IF move_group_ = text \/ ~ctor_ok
            THEN UNCHANGED <<move_group_, joint_states_, bar_value, bar_maximum>>
            ELSE LET bar == BarAfterSetMax(bar_value, bar_maximum, 0)
                 IN  /\ move_group_' = text
                     /\ joint_states_' = << >>
                     /\ bar_value' = bar.value
                     /\ bar_maximum' = bar.maximum
    /\ UNCHANGED <<effector_wrt_world_, object_wrt_sensor_, joint_names_, solveVars,
                   sensor_mount_type_, from_frame_tag_, frame_names_, solver_,
                   calibration_solver_, seqVars, fault>>

\* A wrong variant of KeepMatching that stops reading at the first snapshot
\* of another length.
RECURSIVE KeepMatching_untilMismatch(_, _)
KeepMatching_untilMismatch(values, n) ==
    IF values = << >> \/ Len(Head(values)) # n THEN << >>
    ELSE <<Head(values)>> \o KeepMatching_untilMismatch(Tail(values), n)

\* The snapshots of a joint-state file whose length equals the number of names.
RECURSIVE KeepMatching(_, _)
KeepMatching(values, n) ==
    IF values = << >> THEN << >>
    ELSE IF Len(Head(values)) = n
         THEN <<Head(values)>> \o KeepMatching(Tail(values), n)
         ELSE KeepMatching(Tail(values), n)

\* What the file dialog gives loadJointStateBtnClicked: the dialog is
\* cancelled (or the file cannot be opened), or it names one of JointFiles.
JointInputs == {Cancelled} \cup {[doc |-> d] : d \in JointFiles}

\* ControlTabWidget::loadJointStateBtnClicked
loadJointStateBtnClicked_in(input) ==
    /\ UNCHANGED samples_file
    /\ Running
    /\ UNCHANGED <<effector_wrt_world_, object_wrt_sensor_, solveVars, configVars,
                   seqVars>>
    /\ IF input = Cancelled
       THEN UNCHANGED <<joint_states_, joint_names_, bar_value, bar_maximum, fault>>
       ELSE IF ~input.doc.has_values
       THEN /\ joint_names_' = input.doc.names
            /\ UNCHANGED <<joint_states_, bar_value, bar_maximum, fault>>
       ELSE IF input.doc.bad_at # 0
       THEN \* YAML::BadConversion is no YAML::ParserException: not caught
            /\ joint_names_' = input.doc.names
            /\ joint_states_' =
                   KeepMatching(SubSeq(input.doc.values, 1, input.doc.bad_at - 1),
                                Len(input.doc.names))
            /\ fault' = "uncaught_exception"
            /\ UNCHANGED <<bar_value, bar_maximum>>
       ELSE LET js == KeepMatching(input.doc.values, Len(input.doc.names))
                b1 == BarAfterSetMax(bar_value, bar_maximum, Len(js))
                b2 == BarAfterSetValue(b1.value, b1.maximum, 0)
            IN  /\ joint_names_' = input.doc.names
                /\ joint_states_' = js
                /\ bar_value' = IF Len(js) > 0 THEN b2.value ELSE bar_value
                /\ bar_maximum' = IF Len(js) > 0 THEN b2.maximum ELSE bar_maximum
                /\ UNCHANGED fault

loadJointStateBtnClicked ==
    \E input \in JointInputs : loadJointStateBtnClicked_in(input)

\* ---------------------------------------------------------------- sequencer
\* planning_scene_monitor_ is reset to a new monitor in the constructor and
\* never cleared.
planning_scene_monitor_ == TRUE

\* QFutureWatcher::isRunning() of plan_watcher_ and execution_watcher_.
PlanRunning == plan_pc \in {"started", "ready", "planning"}
ExecRunning == exec_pc \in {"started", "executing"}

\* Skip and Execute are requested while the progress value is bounded by the
\* bar's range, or, with the range [0, 0] that accepts every value, while it
\* is below MaxProgress.
ProgressCanMove == bar_maximum # 0 \/ bar_value < MaxProgress

\* A wrong variant of autoPlanBtnClicked that leaves the Plan button enabled.
autoPlanBtnClicked_keepsEnabled ==
    /\ UNCHANGED samples_file
    /\ Running
    /\ auto_plan_btn_
    /\ plan_pc' = "started"
    /\ plan_status' = "pending"
    /\ UNCHANGED <<storeVars, solveVars, configVars, planning_res_, current_plan_,
                   auto_plan_btn_, auto_execute_btn_, exec_pc, gui_pc, fault>>

\* ControlTabWidget::autoPlanBtnClicked
autoPlanBtnClicked ==
    /\ UNCHANGED samples_file
    /\ Running
    /\ auto_plan_btn_
    /\ auto_plan_btn_' = FALSE
    /\ plan_pc' = "started"
    /\ plan_status' = "pending"
    /\ UNCHANGED <<storeVars, solveVars, configVars, planning_res_, current_plan_,
                   auto_execute_btn_, exec_pc, gui_pc, fault>>

\* A wrong variant of PlanChecks that does not compare the progress value
\* with the maximum.
PlanChecks_noEndCheck ==
    IF bar_maximum # Len(joint_states_)
    THEN "FAILURE_NO_JOINT_STATE"
    ELSE IF ~checkJointStates THEN "FAILURE_INVALID_JOINT_STATE"
    ELSE IF ~planning_scene_monitor_ THEN "FAILURE_NO_PSM"
    ELSE IF move_group_ = "null" THEN "FAILURE_NO_MOVE_GROUP"
    ELSE IF ActiveJoints(move_group_) # joint_names_ THEN "FAILURE_WRONG_MOVE_GROUP"
    ELSE "SUCCESS"

\* The result of the precondition checks of computePlan (lines 1035-1066).
PlanChecks ==
    IF bar_maximum # Len(joint_states_) \/ bar_value = bar_maximum
    THEN "FAILURE_NO_JOINT_STATE"
    ELSE IF ~checkJointStates THEN "FAILURE_INVALID_JOINT_STATE"
    ELSE IF ~planning_scene_monitor_ THEN "FAILURE_NO_PSM"
    ELSE IF move_group_ = "null" THEN "FAILURE_NO_MOVE_GROUP"
    ELSE IF ActiveJoints(move_group_) # joint_names_ THEN "FAILURE_WRONG_MOVE_GROUP"
    ELSE "SUCCESS"

\* ControlTabWidget::computePlan on its pool thread, up to the wait for the
\* current robot state.
computePlan_checks ==
    /\ UNCHANGED samples_file
    /\ fault = "none"
    /\ plan_pc = "started"
    /\ planning_res_' = PlanChecks
    /\ plan_pc' = IF PlanChecks = "SUCCESS" THEN "ready" ELSE "finished"
    /\ plan_status' = IF PlanChecks = "SUCCESS" THEN plan_status ELSE PlanChecks
    /\ UNCHANGED <<storeVars, solveVars, configVars, current_plan_, auto_plan_btn_,
                   auto_execute_btn_, exec_pc, gui_pc, fault>>

\* computePlan: the target is read and the planner is called (lines 1077-1084).
\* getValue() is an int compared with a size_t, so -1 compares as not less.
computePlan_target ==
    /\ UNCHANGED samples_file
    /\ fault = "none"
    /\ plan_pc = "ready"
    /\ IF bar_value >= 0 /\ bar_value < Len(joint_states_)
       THEN /\ current_plan_' = [null |-> FALSE, idx |-> bar_value,
                                 target |-> joint_states_[bar_value + 1],
                                 filled |-> FALSE]
            /\ plan_pc' = "planning"
            /\ UNCHANGED plan_status
       ELSE /\ plan_pc' = "finished"
            /\ plan_status' = "unplanned"
            /\ UNCHANGED current_plan_
    /\ UNCHANGED <<storeVars, solveVars, configVars, planning_res_, auto_plan_btn_,
                   auto_execute_btn_, exec_pc, gui_pc, fault>>

\* computePlan: move_group_->plan returns (lines 1084-1091); ok is the
\* planner's verdict.
computePlan_result_in(ok) ==
    /\ UNCHANGED samples_file
    /\ fault = "none"
    /\ plan_pc = "planning"
    /\ planning_res_' = IF ok THEN "SUCCESS" ELSE "FAILURE_PLAN_FAILED"
    /\ current_plan_' = [current_plan_ EXCEPT !.filled = ok]
    /\ plan_status' = IF ok THEN "planned" ELSE "FAILURE_PLAN_FAILED"
    /\ plan_pc' = "finished"
    /\ UNCHANGED <<storeVars, solveVars, configVars, auto_plan_btn_,
                   auto_execute_btn_, exec_pc, gui_pc, fault>>

computePlan_result == \E ok \in BOOLEAN : computePlan_result_in(ok)

\* ControlTabWidget::planFinished, the slot of plan_watcher_'s finished signal.
planFinished ==
    /\ UNCHANGED samples_file
    /\ Running
    /\ plan_pc = "finished"
    /\ auto_plan_btn_' = TRUE
    /\ plan_pc' = "idle"
    /\ UNCHANGED <<storeVars, solveVars, configVars, planning_res_, current_plan_,
                   auto_execute_btn_, exec_pc, gui_pc, plan_status, fault>>

\* ControlTabWidget::autoExecuteBtnClicked.  With a plan computation running
\* the handler blocks in waitForFinished (gui_pc = "waitPlan") and goes on in
\* autoExecuteBtnClicked_resume.
autoExecuteBtnClicked ==
    /\ UNCHANGED samples_file
    /\ Running
    /\ auto_execute_btn_
    /\ ProgressCanMove
    /\ IF PlanRunning
       THEN /\ gui_pc' = "waitPlan"
            /\ UNCHANGED <<auto_execute_btn_, exec_pc>>
       ELSE /\ auto_execute_btn_' = FALSE
            /\ exec_pc' = "started"
            /\ UNCHANGED gui_pc
    /\ UNCHANGED <<storeVars, solveVars, configVars, planning_res_, current_plan_,
                   auto_plan_btn_, plan_pc, plan_status, fault>>

autoExecuteBtnClicked_resume ==
    /\ UNCHANGED samples_file
    /\ fault = "none"
    /\ gui_pc = "waitPlan"
    /\ ~PlanRunning
    /\ gui_pc' = "idle"
    /\ auto_execute_btn_' = FALSE
    /\ exec_pc' = "started"
    /\ UNCHANGED <<storeVars, solveVars, configVars, planning_res_, current_plan_,
                   auto_plan_btn_, plan_pc, plan_status, fault>>

\* ControlTabWidget::computeExecution on its pool thread, up to the call of
\* move_group_->execute.
computeExecution_begin ==
    /\ UNCHANGED samples_file
    /\ fault = "none"
    /\ exec_pc = "started"
    /\ exec_pc' = IF move_group_ # "null" /\ current_plan_ # NullPlan
                  THEN "executing" ELSE "finished_skipped"
    /\ UNCHANGED <<storeVars, solveVars, configVars, planning_res_, current_plan_,
                   auto_plan_btn_, auto_execute_btn_, plan_pc, gui_pc, plan_status,
                   fault>>

\* computeExecution: move_group_->execute returns; ok is the executor's
\* verdict.
computeExecution_result_in(ok) ==
    /\ UNCHANGED samples_file
    /\ fault = "none"
    /\ exec_pc = "executing"
    /\ planning_res_' = IF ok THEN "SUCCESS" ELSE "FAILURE_PLAN_FAILED"
    /\ exec_pc' = IF ok THEN "finished_ok" ELSE "finished_failed"
    /\ UNCHANGED <<storeVars, solveVars, configVars, current_plan_, auto_plan_btn_,
                   auto_execute_btn_, plan_pc, gui_pc, plan_status, fault>>

computeExecution_result == \E ok \in BOOLEAN : computeExecution_result_in(ok)

ExecFinishedStates == {"finished_skipped", "finished_ok", "finished_failed"}

\* ControlTabWidget::executeFinished, the slot of execution_watcher_'s
\* finished signal.
executeFinished_in(lk, res) ==
    /\ UNCHANGED samples_file
    /\ Running
    /\ exec_pc \in ExecFinishedStates
    /\ auto_execute_btn_' = TRUE
    /\ exec_pc' = "idle"
    /\ UNCHANGED <<joint_states_, joint_names_, bar_maximum, configVars, planning_res_,
                   current_plan_, auto_plan_btn_, plan_pc, gui_pc, plan_status, fault>>
    /\ IF planning_res_ = "SUCCESS"
       THEN LET bar == BarAfterSetValue(bar_value, bar_maximum, bar_value + 1)
                none == [ok |-> FALSE, msg |-> "Empty Frame Name",
                         eff |-> effector_wrt_world_, obj |-> object_wrt_sensor_]
                t == IF frameNamesEmpty THEN none ELSE takeTransformSamples(lk)
                s == IF SolveGuard(t.eff, t.obj)
                     THEN solveCameraRobotPose(t.eff, t.obj, res)
                     ELSE SkippedSolve
            IN  /\ bar_value' = bar.value
                /\ effector_wrt_world_' = t.eff
                /\ object_wrt_sensor_' = t.obj
                /\ camera_robot_pose_' = s.pose
                /\ published' = s.pub
       ELSE UNCHANGED <<effector_wrt_world_, object_wrt_sensor_, bar_value, solveVars>>

executeFinished ==
    \E lk \in LookupsNow, res \in BOOLEAN : executeFinished_in(lk, res)

\* ControlTabWidget::autoSkipBtnClicked
autoSkipBtnClicked ==
    /\ UNCHANGED samples_file
    /\ Running
    /\ ProgressCanMove
    /\ bar_value' = BarAfterSetValue(bar_value, bar_maximum, bar_value + 1).value
    /\ UNCHANGED <<effector_wrt_world_, object_wrt_sensor_, joint_states_, joint_names_,
                   bar_maximum, solveVars, configVars, seqVars, fault>>

\* ------------------------------------------------------------ specification
\* The solver part of the constructor (lines 236-239): the combo box shows
\* its first item, solver_ is what the last createSolverInstance left.
SolversFilled(plugins) ==
    LET f == fillSolverTypes(plugins, NullSolver, << >>)
    IN  /\ solver_ = f.solver
        /\ calibration_solver_ =
               [items |-> f.items,
                text |-> IF f.items = << >> THEN << >> ELSE f.items[1]]

\* The state the constructor leaves.  The solver plugin is found or not; the
\* planning scene service answers (the group combo box is filled and its
\* first group selected) or does not.
InitWith(pluginLists) ==
    /\ effector_wrt_world_ = << >>
    /\ object_wrt_sensor_ = << >>
    /\ joint_states_ = << >>
    /\ joint_names_ = << >>
    /\ bar_value = 0
    /\ bar_maximum = 0
    /\ camera_robot_pose_ = IdentityPose
    /\ published = {}
    /\ sensor_mount_type_ = "EYE_TO_HAND"
    /\ from_frame_tag_ = "base"
    /\ frame_names_ = NoFrames
    /\ \E plugins \in pluginLists : SolversFilled(plugins)
    /\ \/ group_name_ = "" /\ move_group_ = "null"
       \/ group_name_ = "arm" /\ move_group_ = "arm"
    /\ planning_res_ = "SUCCESS"
    /\ current_plan_ = NullPlan
    /\ auto_plan_btn_ = TRUE
    /\ auto_execute_btn_ = TRUE
    /\ plan_pc = "idle"
    /\ exec_pc = "idle"
    /\ gui_pc = "idle"
    /\ plan_status = "none"
    /\ fault = "none"
    /\ samples_file = NoFile

Init == InitWith(PluginLists)

Next ==
    \/ takeSampleBtnClicked
    \/ deleteLatestSampleBtnClicked
    \/ clearSamplesBtnClicked
    \/ loadSamplesBtnClicked
    \/ saveSamplesBtnClicked
    \/ solveBtnClicked
    \/ UpdateSensorMountType
    \/ updateFrameNames
    \/ calibration_solver_activated
    \/ planningGroupNameChanged
    \/ loadJointStateBtnClicked
    \/ autoPlanBtnClicked
    \/ computePlan_checks
    \/ computePlan_target
    \/ computePlan_result
    \/ planFinished
    \/ autoExecuteBtnClicked
    \/ autoExecuteBtnClicked_resume
    \/ computeExecution_begin
    \/ computeExecution_result
    \/ executeFinished
    \/ autoSkipBtnClicked

Spec == Init /\ [][Next]_vars

\* The sample store worked by hand: the buttons of the "Manual calibration"
\* group, the Solve button and the frame names arriving from the context tab;
\* the save dialog is cancelled (SpecRoundTrip writes the file).
NextStore ==
    \/ takeSampleBtnClicked
    \/ deleteLatestSampleBtnClicked
    \/ clearSamplesBtnClicked
    \/ loadSamplesBtnClicked
    \/ saveSamplesBtnClicked_in(Cancelled)
    \/ solveBtnClicked
    \/ updateFrameNames

SpecStore == Init /\ [][NextStore]_vars

\* Samples arriving by hand, from a file and through the capture path of the
\* sequencer: Execute is requested while no plan exists, so computeExecution
\* returns without calling the executor and executeFinished captures a
\* sample.  These are the three callers of solveCameraRobotPose.
NextCapture ==
    \/ takeSampleBtnClicked
    \/ clearSamplesBtnClicked
    \/ loadSamplesBtnClicked
    \/ solveBtnClicked
    \/ updateFrameNames
    \/ autoExecuteBtnClicked
    \/ computeExecution_begin
    \/ executeFinished

SpecCapture == Init /\ [][NextCapture]_vars

\* The sequencer: Plan, Execute and Skip with the two background
\* computations, over joint states loaded from a file.
NextAuto ==
    \/ loadJointStateBtnClicked
    \/ updateFrameNames
    \/ autoPlanBtnClicked
    \/ computePlan_checks
    \/ computePlan_target
    \/ computePlan_result
    \/ planFinished
    \/ autoExecuteBtnClicked
    \/ autoExecuteBtnClicked_resume
    \/ computeExecution_begin
    \/ computeExecution_result
    \/ executeFinished
    \/ autoSkipBtnClicked

SpecAuto == Init /\ [][NextAuto]_vars

\* The manual path alone, from the empty store: Take Sample, Delete Latest
\* and Clear, with the frame names arriving from the context tab.
NextManual ==
    \/ takeSampleBtnClicked
    \/ deleteLatestSampleBtnClicked
    \/ clearSamplesBtnClicked
    \/ updateFrameNames

SpecManual == Init /\ [][NextManual]_vars

\* Samples taken by hand while the planning group is switched in the combo
\* box of the context tab.
NextGroup ==
    \/ takeSampleBtnClicked
    \/ deleteLatestSampleBtnClicked
    \/ planningGroupNameChanged
    \/ updateFrameNames

SpecGroup == Init /\ [][NextGroup]_vars

\* Plan-then-execute cycles with a planner and an executor that always
\* succeed: joint targets are loaded before the first plan request, Plan is
\* requested while no execution is outstanding, and Execute is requested
\* once the plan for the current target is there.
CycleLoad ==
    /\ plan_status = "none"
    /\ \E d \in CycleFiles : loadJointStateBtnClicked_in([doc |-> d])

CyclePlan == autoPlanBtnClicked /\ exec_pc = "idle"

CycleExecute ==
    /\ autoExecuteBtnClicked
    /\ plan_pc = "idle"
    /\ plan_status = "planned"
    /\ current_plan_.idx = bar_value

NextCycle ==
    \/ CycleLoad
    \/ updateFrameNames
    \/ CyclePlan
    \/ computePlan_checks
    \/ computePlan_target
    \/ computePlan_result_in(TRUE)
    \/ planFinished
    \/ CycleExecute
    \/ computeExecution_begin
    \/ computeExecution_result_in(TRUE)
    \/ executeFinished

SpecCycle == Init /\ [][NextCycle]_vars

\* Several solver plugins declared: the solver is chosen in the combo box
\* and solved with samples from a file.
InitSolver == InitWith(ManyPluginLists)

NextSolver ==
    \/ calibration_solver_activated
    \/ loadSamplesBtnClicked
    \/ solveBtnClicked
    \/ updateFrameNames

SpecSolver == InitSolver /\ [][NextSolver]_vars

\* Samples taken by hand, or loaded, are saved to a file and loaded back, in
\* a widget constructed with a solver plugin and a planning group, whose
\* solver succeeds and whose planning scene is available.
InitRoundTrip == InitWith({<<PluginA>>}) /\ group_name_ = "arm"

NextRoundTrip ==
    \/ \E lk \in LookupsNow : takeSampleBtnClicked_in(lk, TRUE, TRUE)
    \/ clearSamplesBtnClicked
    \/ saveSamplesBtnClicked
    \/ loadSamplesBtnClicked
    \/ updateFrameNames

SpecRoundTrip == InitRoundTrip /\ [][NextRoundTrip]_vars

\* Joint targets loaded from files while samples are taken and deleted by
\* hand.
NextTargets ==
    \/ takeSampleBtnClicked
    \/ deleteLatestSampleBtnClicked
    \/ loadJointStateBtnClicked
    \/ updateFrameNames

SpecTargets == Init /\ [][NextTargets]_vars

\* The mount type switched in the context tab while samples are loaded,
\* taken by hand and solved.
NextMount ==
    \/ takeSampleBtnClicked
    \/ loadSamplesBtnClicked
    \/ solveBtnClicked
    \/ UpdateSensorMountType
    \/ updateFrameNames

SpecMount == Init /\ [][NextMount]_vars

\* ------------------------------------------------------------------ claims
\* C1: after any sequence of take, capture, delete, clear, load (also one
\* that fails part-way through a record) and save, the effector-in-world
\* sequence and the target-in-sensor sequence have equal length.
C1_EqualLength == Len(effector_wrt_world_) = Len(object_wrt_sensor_)

\* A load-samples input that fails: the file cannot be read, or a record of
\* it does not convert.
LoadFails(input) ==
    IF input = Cancelled THEN FALSE
    ELSE IF input = Unreadable THEN TRUE
    ELSE ~LoadedSamples(input.file).ok

\* C4: a load-samples operation that fails leaves both sample sequences
\* exactly as they were before the load.
C4_FailedLoadKeepsSamples ==
    [][\A input \in LoadInputs :
          loadSamplesBtnClicked_in(input) /\ LoadFails(input)
              => UNCHANGED <<effector_wrt_world_, object_wrt_sensor_>>]_vars

\* C5: delete-latest reports an empty store (and changes nothing) exactly
\* when no pose samples are stored, whatever the number of joint snapshots.
C5_EmptyReportIffNoSamples ==
    Running =>
        (EmptyReport <=> (effector_wrt_world_ = << >> /\ object_wrt_sensor_ = << >>))

\* The candidate lk is at least MIN_ROTATION away from every stored sample
\* on the effector side and on the sensor side.
Diverse(lk) ==
    /\ \A i \in 1..Len(effector_wrt_world_) :
           RelAngle(lk.eef, effector_wrt_world_[i]) >= MIN_ROTATION
    /\ \A j \in 1..Len(object_wrt_sensor_) :
           RelAngle(lk.obj, object_wrt_sensor_[j]) >= MIN_ROTATION

\* C6: takeTransformSamples stores a candidate pair if and only if it is at
\* least MIN_ROTATION (5 degrees) away from every stored sample on both
\* sides; an angle of exactly MIN_ROTATION is accepted, and a rejected
\* candidate is not stored.
C6_StoredIffDiverse ==
    \A lk \in RobotPoses :
        LET t == takeTransformSamples(lk)
        IN  /\ t.ok <=> Diverse(lk)
            /\ t.ok => /\ t.eff = Append(effector_wrt_world_, lk.eef)
                       /\ t.obj = Append(object_wrt_sensor_, lk.obj)
            /\ ~t.ok => /\ t.eff = effector_wrt_world_
                        /\ t.obj = object_wrt_sensor_

\* C6 witness: two stored samples exactly MIN_ROTATION apart on both sides.
C6_EqualAngleStored ==
    /\ Len(effector_wrt_world_) = Len(object_wrt_sensor_)
    /\ \E i, j \in 1..Len(effector_wrt_world_) :
          /\ i < j
          /\ RelAngle(effector_wrt_world_[j], effector_wrt_world_[i]) = MIN_ROTATION
          /\ RelAngle(object_wrt_sensor_[j], object_wrt_sensor_[i]) = MIN_ROTATION

\* C7: a manual take-sample whose candidate is rejected, or whose lookup
\* fails, has no successor state in which a sample sequence, the joint
\* snapshots, the joint names or the calibration result differ, and it does
\* not go on to the solver.
C7_RejectedTakeChangesNothing ==
    \A lk \in Lookups, res \in BOOLEAN, ps \in BOOLEAN :
        (~frameNamesEmpty /\ ~takeTransformSamples(lk).ok) =>
            /\ ~TakeSolves(takeTransformSamples(lk))
            /\ ~ENABLED (/\ takeSampleBtnClicked_in(lk, res, ps)
                         /\ <<effector_wrt_world_, object_wrt_sensor_, joint_states_,
                              joint_names_, camera_robot_pose_, published>>' #
                            <<effector_wrt_world_, object_wrt_sensor_, joint_states_,
                              joint_names_, camera_robot_pose_, published>>)

\* C7 witness: a state with samples, joint snapshots and a computed result
\* in which a candidate is rejected by the rotation filter.
C7_RejectionWithFullStore ==
    /\ Running
    /\ ~frameNamesEmpty
    /\ joint_states_ # << >>
    /\ camera_robot_pose_ # IdentityPose
    /\ SolveGuard(effector_wrt_world_, object_wrt_sensor_)
    /\ \E lk \in RobotPoses : ~takeTransformSamples(lk).ok

\* C8: the held calibration result is the solver's result for the currently
\* stored samples, or is cleared: it never belongs to another sample set.
C8_ResultMatchesSamples ==
    camera_robot_pose_ # IdentityPose =>
        camera_robot_pose_ =
            SolverPose(effector_wrt_world_, object_wrt_sensor_, sensor_mount_type_)

\* C9: the solver is invoked only with two sequences of equal length holding
\* at least 5 samples: a Solve-button step that reaches the solver starts
\* from such a state, and the held pose changes only into such a state.
C9_SolveOnlyAboveThreshold ==
    [][/\ \A res \in BOOLEAN :
             solveBtnClicked_in(res) /\ SolverAvailable
                 => SolveGuard(effector_wrt_world_, object_wrt_sensor_)
       /\ camera_robot_pose_' # camera_robot_pose_
             => SolveGuard(effector_wrt_world_', object_wrt_sensor_')]_vars

\* A step of one of the three callers of solveCameraRobotPose with solver
\* verdict res.
SolveStep(res) ==
    \/ solveBtnClicked_in(res)
    \/ \E lk \in Lookups : executeFinished_in(lk, res)
    \/ \E lk \in Lookups, ps \in BOOLEAN : takeSampleBtnClicked_in(lk, res, ps)

\* C10: every step that changes the held pose or what is published is a
\* step of a caller of solveCameraRobotPose in which a solver is available
\* and reports success, and it leaves the solver's result as the held pose;
\* so a step in which the solver reports failure, or in which there is no
\* solver, changes neither.
C10_FailedSolveKeepsPose ==
    [][<<camera_robot_pose_, published>>' # <<camera_robot_pose_, published>>
          => /\ SolverAvailable
             /\ ~SolveStep(FALSE)
             /\ SolveStep(TRUE)
             /\ camera_robot_pose_' =
                    SolverPose(effector_wrt_world_', object_wrt_sensor_',
                               sensor_mount_type_)]_vars

\* C10 witness: five samples are stored, a solver is available, and the pose
\* held is an earlier result, not the solver's result for the five samples:
\* the solve attempted when the fifth sample arrived failed and kept the pose.
C10_EarlierPoseKept ==
    /\ SolverAvailable
    /\ SolveGuard(effector_wrt_world_, object_wrt_sensor_)
    /\ published # {}
    /\ camera_robot_pose_ # IdentityPose
    /\ camera_robot_pose_ #
           SolverPose(effector_wrt_world_, object_wrt_sensor_, sensor_mount_type_)

\* C2: a background plan computation and a background execution are never
\* running at the same time.
C2_PlanAndExecuteExclusive == ~(PlanRunning /\ ExecRunning)

\* C3: computeExecution hands the plan to the executor only when the most
\* recent plan request succeeded, and executeFinished advances the progress
\* value or captures a sample only when the executor reported success.
C3_ExecuteNeedsPlanAndSuccess ==
    [][/\ (computeExecution_begin /\ exec_pc' = "executing")
              => plan_status = "planned"
       /\ (executeFinished /\ exec_pc # "finished_ok")
              => UNCHANGED <<bar_value, effector_wrt_world_, object_wrt_sensor_>>]_vars

\* C11: with only take-sample, delete-latest and clear, starting from the
\* empty store, the number of joint snapshots equals the number of pose
\* samples after every operation.
C11_SnapshotsMatchSamples ==
    Running => Len(joint_states_) = Len(effector_wrt_world_)

\* C12: in every reachable state every stored joint snapshot is as long as
\* the joint-name sequence.
C12_SnapshotLengthIsNameLength ==
    \A i \in 1..Len(joint_states_) : Len(joint_states_[i]) = Len(joint_names_)

\* The active joints of the planning group selected in the combo box, which
\* are the joints takeSampleBtnClicked records.
SelectedJoints == IF group_name_ \in Groups THEN ActiveJoints(group_name_) ELSE << >>

\* C13: when the active joint names become different ones, by the selection
\* of another planning group or by a take-sample that records other joints,
\* no snapshot recorded under the earlier names remains: the snapshot list
\* is empty after the selection and holds only the new snapshot after the
\* take-sample.
C13_NoSnapshotOfOtherJoints ==
    [][/\ (planningGroupNameChanged /\ SelectedJoints' # SelectedJoints)
              => joint_states_' = << >>
       /\ (takeSampleBtnClicked /\ joint_names_' # joint_names_)
              => Len(joint_states_') = 1]_vars

\* The reason the claim gives for a plan request in the current state: the
\* first failing check in the order NoJointState, InvalidJointState,
\* NoPlanningScene, NoPlanningGroup, WrongPlanningGroup, or none.
ClaimedReason ==
    IF bar_value = bar_maximum \/ bar_maximum # Len(joint_states_)
    THEN "FAILURE_NO_JOINT_STATE"
    ELSE IF \/ joint_names_ = << >>
            \/ joint_states_ = << >>
            \/ \E i \in 1..Len(joint_states_) : Len(joint_states_[i]) # Len(joint_names_)
    THEN "FAILURE_INVALID_JOINT_STATE"
    ELSE IF ~planning_scene_monitor_ THEN "FAILURE_NO_PSM"
    ELSE IF move_group_ = "null" THEN "FAILURE_NO_MOVE_GROUP"
    ELSE IF ActiveJoints(move_group_) # joint_names_ THEN "FAILURE_WRONG_MOVE_GROUP"
    ELSE "SUCCESS"

\* C14: the checks of a plan request give the first failing reason in the
\* claimed order, the planner is invoked only after all of them passed, and
\* planFinished reports the reason of its own plan request: the failing
\* check, PlanFailed exactly when the planner was invoked and failed, and
\* nothing otherwise.
C14_ReportsOwnReason ==
    [][/\ computePlan_checks => PlanChecks = ClaimedReason
       /\ (computePlan_target /\ plan_pc' = "planning") => planning_res_ = "SUCCESS"
       /\ planFinished =>
              planning_res_ = (IF plan_status \in {"planned", "unplanned"}
                               THEN "SUCCESS" ELSE plan_status)]_vars

\* C15: in plan-then-execute cycles with a planner and an executor that
\* always succeed, every cycle ends with the progress value one higher, at
\* the index its plan was made for plus one and within the target count;
\* so N cycles from progress 0 bring it to N.  A plan request made when the
\* progress value has reached the target count reports NoJointState and does
\* not go on to the planner.
C15_CyclesReachTargetCount ==
    [][/\ executeFinished =>
              /\ bar_value = current_plan_.idx
              /\ bar_value' = bar_value + 1
              /\ bar_value' <= Len(joint_states_)
       /\ (computePlan_checks /\ bar_value = Len(joint_states_)) =>
              /\ planning_res_' = "FAILURE_NO_JOINT_STATE"
              /\ plan_pc' = "finished"
              /\ UNCHANGED current_plan_]_vars

\* C15 witness: three targets, three cycles done (the last plan was made for
\* index 2), and a fourth plan request has ended with NoJointState.
C15_FourthPlanRefused ==
    /\ Len(joint_states_) = 3
    /\ bar_value = 3
    /\ current_plan_ # NullPlan
    /\ current_plan_.idx = 2
    /\ plan_pc = "finished"
    /\ planning_res_ = "FAILURE_NO_JOINT_STATE"

\* C16: when the executor reported success, executeFinished advances the
\* progress value by exactly one, stores what takeTransformSamples admits
\* if and only if the four frame names are set, and changes the held pose
\* only with at least 5 samples in sequences of equal length.
C16_SuccessAdvancesCapturesSolves ==
    [][\A lk \in Lookups, res \in BOOLEAN :
          (executeFinished_in(lk, res) /\ exec_pc = "finished_ok") =>
              /\ bar_value' = bar_value + 1
              /\ frameNamesEmpty =>
                     UNCHANGED <<effector_wrt_world_, object_wrt_sensor_>>
              /\ ~frameNamesEmpty =>
                     /\ effector_wrt_world_' = takeTransformSamples(lk).eff
                     /\ object_wrt_sensor_' = takeTransformSamples(lk).obj
              /\ camera_robot_pose_' # camera_robot_pose_ =>
                     /\ Len(effector_wrt_world_') >= 5
                     /\ Len(effector_wrt_world_') = Len(object_wrt_sensor_')]_vars

\* C17: the completion handler of a failed plan, and of a failed execution,
\* leaves its operation idle and its request control enabled, and changes
\* neither the progress value, nor a sample sequence, nor the held pose, nor
\* what is published.
C17_FailureChangesNothing ==
    [][/\ (planFinished /\ plan_status \notin {"planned", "unplanned"}) =>
              /\ plan_pc' = "idle" /\ auto_plan_btn_'
              /\ UNCHANGED <<bar_value, effector_wrt_world_, object_wrt_sensor_,
                             camera_robot_pose_, published>>
       /\ (executeFinished /\ exec_pc = "finished_failed") =>
              /\ exec_pc' = "idle" /\ auto_execute_btn_'
              /\ UNCHANGED <<bar_value, effector_wrt_world_, object_wrt_sensor_,
                             camera_robot_pose_, published>>]_vars

\* Where a skip request leaves the progress value: one higher, unless it
\* already is at a maximum other than 0.
SkipTarget ==
    IF bar_maximum = 0 \/ bar_value + 1 <= bar_maximum THEN bar_value + 1 ELSE bar_value

\* C18 as stated: a skip request advances the progress value by one, so it
\* has no outcome with another progress value.
C18_SkipAdvancesByOne == ~ENABLED (autoSkipBtnClicked /\ bar_value' # bar_value + 1)

\* C18: a skip request advances the progress value by one unless the value
\* already equals a maximum other than 0, where it stays; it changes neither
\* a sample sequence, nor the joint snapshots and names, nor the held pose
\* and what is published, nor the stored plan, nor the status of an
\* outstanding plan or execution.
C18_SkipMovesOnlyProgress ==
    ~ENABLED (/\ autoSkipBtnClicked
              /\ \/ bar_value' # SkipTarget
                 \/ <<effector_wrt_world_, object_wrt_sensor_, joint_states_,
                      joint_names_, bar_maximum, camera_robot_pose_, published,
                      current_plan_, planning_res_, plan_pc, exec_pc,
                      auto_plan_btn_, auto_execute_btn_>>' #
                    <<effector_wrt_world_, object_wrt_sensor_, joint_states_,
                      joint_names_, bar_maximum, camera_robot_pose_, published,
                      current_plan_, planning_res_, plan_pc, exec_pc,
                      auto_plan_btn_, auto_execute_btn_>>)

\* C18 witness: two skip requests made while the planner works on the plan
\* for index 0 have brought the progress value to the maximum 2, where a
\* further skip request is accepted and leaves it.
C18_SkippedToMaximumWhilePlanning ==
    /\ Running
    /\ bar_maximum = 2
    /\ bar_value = 2
    /\ plan_pc = "planning"
    /\ current_plan_ # NullPlan
    /\ current_plan_.idx = 0
    /\ ENABLED autoSkipBtnClicked

\* C19: while a plan (an execution) is outstanding, from its request until
\* its completion handler has run, the Plan (Execute) button is disabled, so
\* no second one is started; the button is enabled again by planFinished
\* (executeFinished) and by no other step.
C19_OneOutstandingEach ==
    [][/\ plan_pc' # "idle" => ~auto_plan_btn_'
       /\ exec_pc' # "idle" => ~auto_execute_btn_'
       /\ (plan_pc' = "started" /\ plan_pc # "started") => plan_pc = "idle"
       /\ (exec_pc' = "started" /\ exec_pc # "started") => exec_pc = "idle"
       /\ (auto_plan_btn_' /\ ~auto_plan_btn_) => (planFinished /\ plan_pc = "finished")
       /\ (auto_execute_btn_' /\ ~auto_execute_btn_)
              => (executeFinished /\ exec_pc \in ExecFinishedStates)]_vars

\* C19 witness: a plan and an execution have both finished their computation
\* and neither completion handler has run yet: both buttons are disabled.
C19_BothAwaitingCompletion ==
    /\ plan_pc = "finished"
    /\ exec_pc \in ExecFinishedStates
    /\ ~auto_plan_btn_
    /\ ~auto_execute_btn_

\* C20: an execution is started only when no plan computation is running,
\* and the executor never works on the stored plan while the planner is
\* filling it.
C20_ExecutorNeverReadsPlanBeingWritten ==
    [][/\ (exec_pc' = "started" /\ exec_pc # "started") => ~PlanRunning'
       /\ ~(exec_pc' = "executing" /\ plan_pc' = "planning")]_vars

\* C21: the background operations leave the sample sequences, the joint
\* snapshots and names and the progress bar alone, and what they use of
\* them cannot change under them: when computePlan goes on to read its
\* target, the checks it made on the snapshots and the progress value still
\* hold.
C21_StoreOnlyOnControlThread ==
    [][/\ (\/ computePlan_checks \/ computePlan_target \/ computePlan_result
           \/ computeExecution_begin \/ computeExecution_result)
              => UNCHANGED storeVars
       /\ computePlan_target => PlanChecks = "SUCCESS"]_vars

\* C22: where solveCameraRobotPose calls the solver, the instance it calls
\* is the one of the plugin named in the selected "plugin/solver" item, and
\* the solver name it passes is the one of that item.
C22_SelectedProviderSolves ==
    SolverAvailable =>
        solver_.plugin \o <<"/">> \o parseSolverName(calibration_solver_.text, "/")
            = calibration_solver_.text

\* C23: the transforms a take-sample appends to the two sample sequences
\* are the normalized lookup results.
C23_StoredSampleIsNormalized ==
    [][\A lk \in RobotPoses, res \in BOOLEAN, ps \in BOOLEAN :
          (takeSampleBtnClicked_in(lk, res, ps) /\ takeTransformSamples(lk).ok) =>
              /\ effector_wrt_world_' = Append(effector_wrt_world_, Normalize(lk.eef))
              /\ object_wrt_sensor_' = Append(object_wrt_sensor_, Normalize(lk.obj))]_vars

\* C24: saving a non-empty sample set and loading the saved file gives back
\* the saved sequences, element by element and in the same order, whatever
\* the store held before the load. In two steps: the file a save writes
\* reads back as the sequences it was written from, and a load of the written
\* file leaves the store holding what the file reads back as.
C24_SaveThenLoadRestores ==
    [][/\ (/\ saveSamplesBtnClicked_in(Written)
           /\ Len(effector_wrt_world_) = Len(object_wrt_sensor_)
           /\ Len(effector_wrt_world_) > 0)
              => LoadedSamples(ParsedFile(samples_file'))
                     = [ok |-> TRUE, eff |-> effector_wrt_world_,
                        obj |-> object_wrt_sensor_]
       /\ (/\ samples_file # NoFile
           /\ loadSamplesBtnClicked_in([file |-> ParsedFile(samples_file)]))
              => /\ effector_wrt_world_' = LoadedSamples(ParsedFile(samples_file)).eff
                 /\ object_wrt_sensor_' = LoadedSamples(ParsedFile(samples_file)).obj]_vars

\* A file of two samples or more, one of them stored un-normalised, was
\* written and then loaded: the store holds the samples of the file and the
\* progress bar stands at their number.
C24_SavedFileLoaded ==
    /\ samples_file # NoFile
    /\ Len(samples_file.content) >= 2
    /\ Len(effector_wrt_world_) = Len(object_wrt_sensor_)
    /\ \E i \in 1..Len(object_wrt_sensor_) : ~object_wrt_sensor_[i].unit
    /\ SavedFile(effector_wrt_world_, object_wrt_sensor_) = samples_file
    /\ bar_value = Len(samples_file.content)
    /\ bar_maximum = Len(samples_file.content)

\* C25: from any reachable state, a take-sample that stores a sample and a
\* joint snapshot, followed at once by delete-latest, leaves both sample
\* sequences and the joint-snapshot list as they were before the take.
C25_DeleteUndoesTake ==
    [][\A lk \in RobotPoses, res \in BOOLEAN, ps \in BOOLEAN :
          (/\ takeSampleBtnClicked_in(lk, res, ps)
           /\ takeTransformSamples(lk).ok
           /\ joint_states_' # joint_states_
           /\ fault' = "none")
              => LET d == deleteLatest(effector_wrt_world_', object_wrt_sensor_',
                                       joint_states_')
                 IN  /\ d.eff = effector_wrt_world_
                     /\ d.obj = object_wrt_sensor_
                     /\ d.js = joint_states_]_vars

\* C26: clear-all-samples can be carried out in every state the control
\* thread handles a request in, and it leaves both sample sequences and the
\* joint-snapshot list empty and the progress value and its maximum at 0.
C26_ClearEmptiesAndResets ==
    /\ [](Running => ENABLED clearSamplesBtnClicked)
    /\ [][clearSamplesBtnClicked =>
             /\ effector_wrt_world_' = << >>
             /\ object_wrt_sensor_' = << >>
             /\ joint_states_' = << >>
             /\ bar_value' = 0
             /\ bar_maximum' = 0
             /\ fault' = "none"]_vars

\* The store was emptied after a loaded sample set had been solved: no joint
\* snapshot was ever taken, so delete-latest cannot have emptied it.
C26_ClearedAfterSolve ==
    /\ effector_wrt_world_ = << >>
    /\ object_wrt_sensor_ = << >>
    /\ joint_states_ = << >>
    /\ joint_names_ = << >>
    /\ bar_value = 0
    /\ bar_maximum = 0
    /\ camera_robot_pose_ # IdentityPose

\* C27: a load-joint-states that reads joint_names and joint_values stores
\* exactly the value lists of the file whose length is the number of loaded
\* names, in file order; a list of another length is left out and the lists
\* after it are still read.
C27_LoadKeepsMatchingInOrder ==
    [][\A d \in JointFiles :
          (/\ loadJointStateBtnClicked_in([doc |-> d])
           /\ d.has_values
           /\ d.bad_at = 0)
              => /\ joint_names_' = d.names
                 /\ joint_states_' =
                        SelectSeq(d.values, LAMBDA v : Len(v) = Len(d.names))
                 /\ fault' = "none"]_vars

\* The file with a one-value list between two two-value lists was loaded
\* for the names j1, j2.
C27_MiddleSnapshotDropped ==
    /\ joint_names_ = <<"j1", "j2">>
    /\ joint_states_ = << <<1, 1>>, <<2, 2>> >>
    /\ bar_value = 0
    /\ bar_maximum = 2

\* C28: UpdateSensorMountType, with an index in or out of range, leaves both
\* sample sequences, the joint snapshots, the held calibration result and the
\* transform already published as they are; it sets the tag of the frame a
\* transform published by a later solve originates from.
C28_MountChangeKeepsSamplesAndResult ==
    [][/\ UpdateSensorMountType =>
             /\ UNCHANGED <<effector_wrt_world_, object_wrt_sensor_, joint_states_,
                            joint_names_, camera_robot_pose_, published, frame_names_>>
             /\ from_frame_tag_' =
                    IF sensor_mount_type_' = "EYE_IN_HAND" THEN "eef" ELSE "base"
       /\ \A res \in BOOLEAN :
             (solveBtnClicked_in(res) /\ published' # published) =>
                 \A p \in published' : p.from = frame_names_[from_frame_tag_]]_vars

\* The mount type was switched to eye-in-hand after a solve for eye-to-hand
\* published its transform from the base frame: samples, result and
\* published transform are still those of the solve.
C28_MountSwitchedAfterSolve ==
    /\ sensor_mount_type_ = "EYE_IN_HAND"
    /\ from_frame_tag_ = "eef"
    /\ effector_wrt_world_ # << >>
    /\ camera_robot_pose_ # IdentityPose
    /\ camera_robot_pose_.mount = "EYE_TO_HAND"
    /\ \E p \in published : p.from = "base" /\ p.pose = camera_robot_pose_

\* C29: a capture requested while one of the four frame names is empty
\* changes nothing: the sample sequences, the joint snapshots, the progress
\* value and the held and published result stay as they are, for the manual
\* take-sample and for the capture of executeFinished after an execution
\* that succeeded.
C29_EmptyFrameNameAbortsCapture ==
    [][(/\ frameNamesEmpty
        /\ \/ takeSampleBtnClicked
           \/ (executeFinished /\ exec_pc = "finished_ok" /\ planning_res_ = "SUCCESS"))
           => UNCHANGED <<effector_wrt_world_, object_wrt_sensor_, joint_states_,
                          bar_value, camera_robot_pose_, published>>]_vars

\* C30: whenever an execution is started, the plan handed to the executor was
\* computed for the joint target at the current progress index, whatever
\* skip, load-joint-states, delete-latest and clear requests came between the
\* plan and the execute (stated for an execution that starts after the plan
\* computation has ended with a plan).
C30_ExecutedPlanIsForCurrentTarget ==
    [][(/\ computeExecution_begin
        /\ exec_pc' = "executing"
        /\ plan_pc = "idle"
        /\ plan_status = "planned") =>
           /\ current_plan_.idx = bar_value
           /\ bar_value < Len(joint_states_)
           /\ current_plan_.target = joint_states_[bar_value + 1]]_vars

\* C31: whenever a plan request finishes with planning_res_ = SUCCESS, the
\* planner was called during that request with the joint target at an index
\* below the number of snapshots and reported success, whatever requests the
\* control thread handled while the plan was outstanding (stated for a plan
\* request that finishes with no execution outstanding).
C31_SuccessMeansPlannerSucceeded ==
    [][(planFinished /\ planning_res_ = "SUCCESS" /\ exec_pc = "idle") =>
           /\ plan_status = "planned"
           /\ current_plan_ # NullPlan
           /\ current_plan_.filled]_vars

\* C32: in every reachable state the maximum of the progress bar is the
\* number of stored joint snapshots.
C32_MaximumIsSnapshotCount == bar_maximum = Len(joint_states_)

\* C33: in every reachable state any two distinct stored samples are at
\* least MIN_ROTATION apart in rotation, on the effector side and on the
\* sensor side, however the samples were stored.
C33_StoredSamplesAreDiverse ==
    /\ \A i, j \in 1..Len(effector_wrt_world_) :
          i # j => RelAngle(effector_wrt_world_[i], effector_wrt_world_[j]) >= MIN_ROTATION
    /\ \A i, j \in 1..Len(object_wrt_sensor_) :
          i # j => RelAngle(object_wrt_sensor_[i], object_wrt_sensor_[j]) >= MIN_ROTATION

\* C34: solveCameraRobotPose publishes a transform only when the solver
\* reported success and the from-frame name and the sensor frame name are both
\* non-empty, and then the published set is exactly the newly solved pose
\* between these two frames; when the solver succeeds and one of the two names
\* is empty the held pose is updated, nothing is published and the call
\* returns false; in every other case the held pose and the published set
\* stay and the call returns false.
C34_PublishesOnlySolvedPoseWithFrames ==
    [][\A res \in BOOLEAN :
          solveBtnClicked_in(res) =>
              LET from_frame == frame_names_[from_frame_tag_]
                  to_frame == frame_names_["sensor"]
                  solved == SolverAvailable /\ res
                  named == from_frame # "" /\ to_frame # ""
                  pose == SolverPose(effector_wrt_world_, object_wrt_sensor_,
                                     sensor_mount_type_)
                  ret == solveCameraRobotPose(effector_wrt_world_,
                                              object_wrt_sensor_, res).ret
              IN  /\ (solved /\ named) =>
                         /\ camera_robot_pose_' = pose
                         /\ published' = {[pose |-> pose, from |-> from_frame,
                                           to |-> to_frame]}
                  /\ (solved /\ ~named) =>
                         /\ camera_robot_pose_' = pose
                         /\ published' = published
                         /\ ~ret
                  /\ ~solved =>
                         /\ UNCHANGED <<camera_robot_pose_, published>>
                         /\ ~ret]_vars

\* A solve for the eye-in-hand mount was published from the end-effector
\* frame, and it is the only transform published.
C34_OnlyNewPosePublished ==
    /\ camera_robot_pose_ # IdentityPose
    /\ camera_robot_pose_.mount = "EYE_IN_HAND"
    /\ camera_robot_pose_.ne = Len(effector_wrt_world_)
    /\ published = {[pose |-> camera_robot_pose_, from |-> "eef", to |-> "sensor"]}

\* C35: in every reachable state from_frame_tag_ is "base" exactly when the
\* mount type is EYE_TO_HAND and "eef" exactly when it is EYE_IN_HAND, and
\* UpdateSensorMountType with an index outside {0, 1} changes neither.
C35_FrameTagFollowsMountType ==
    /\ from_frame_tag_ = "base" <=> sensor_mount_type_ = "EYE_TO_HAND"
    /\ from_frame_tag_ = "eef" <=> sensor_mount_type_ = "EYE_IN_HAND"
    /\ \A index \in MountIndices \ {0, 1} :
          ~ENABLED (/\ UpdateSensorMountType_in(index)
                    /\ <<sensor_mount_type_, from_frame_tag_>>'
                           # <<sensor_mount_type_, from_frame_tag_>>)

\* The mount type was set to eye-in-hand and samples were stored after that.
C35_EyeInHandSelected ==
    /\ sensor_mount_type_ = "EYE_IN_HAND"
    /\ from_frame_tag_ = "eef"
    /\ Len(effector_wrt_world_) >= 2
    /\ published = {}

====
